---- MODULE Spec2Model ----
(***************************************************************************)
(* Model of sqlalchemy_utils/functions/database.py: database_exists,       *)
(* create_database and drop_database against one database server (or one  *)
(* SQLite file), has_index / has_unique_index over a table description,    *)
(* and json_sql / jsonb_sql over nested Python values.                     *)
(***************************************************************************)
EXTENDS Integers, Sequences, FiniteSets, TLC

(* ----------------------------------------------------------------------- *)
(* Python values shared by the three parts of the model                    *)
(* ----------------------------------------------------------------------- *)

\* Python's None, where a database name or an exception name may be absent.
None == "None"

\* Truthiness of a database name: None and the empty string are falsy.
Truthy(x) == x # None /\ x # ""

(* ----------------------------------------------------------------------- *)
(* Part 1: database_exists / create_database / drop_database               *)
(* ----------------------------------------------------------------------- *)

VARIABLES
    backend,              \* dialect name of the server the URLs point at
    dbs,                  \* user databases present on the server
    sysdbs,               \* maintenance databases present on the server
    default_db_ok,        \* a connection that names no database succeeds
    server_version_info,  \* conn.dialect.server_version_info
    files,                \* SQLite: file name -> file on disk
    fn,                   \* function being executed ("" before the first call)
    url,                  \* local `url` of the running function
    database,             \* local `database` (the caller's url.database)
    engine_opts,          \* keyword arguments of sa.create_engine
    pc,                   \* position in the running function
    k,                    \* database_exists/postgresql: loop index
    nconn,                \* connections opened by the running function
    log,                  \* statements executed by the running function
    printed,              \* messages printed by the running function
    rows,                 \* drop_database/mssql: session ids of the rows
    ri,                   \* drop_database/mssql: index of the current row
    outcome,              \* "running" | "returned" | "raised"
    retval,                \* return value of database_exists
    lifecycle,            \* history: database -> last completed operation
    swallowed             \* history: database -> last drop caught an exception

VARIABLES
    arg,                  \* has_index: column_or_constraint, with its table
    ix_pc,                \* has_index: which function ran
    ix_result             \* has_index: what it returned or raised

VARIABLES
    jvalue,               \* json_sql: the value argument
    jflag,                \* json_sql: scalars_to_json / scalars_to_jsonb
    j_pc,                 \* json_sql: which function ran
    jresult               \* json_sql: the construct returned

dbvars == <<backend, dbs, sysdbs, default_db_ok, server_version_info, files,
            fn, url, database, engine_opts, pc, k, nconn, log, printed, rows,
            ri, outcome, retval, lifecycle, swallowed>>
ixvars == <<arg, ix_pc, ix_result>>
jsvars == <<jvalue, jflag, j_pc, jresult>>
vars == <<dbvars, ixvars, jsvars>>

\* Bound: rows the active-transactions query may return.
MaxRows == 2

Dialects == {"postgresql", "mysql", "sqlite", "mssql", "cockroachdb", "oracle"}

\* One driver inside and one outside the driver sets the code names.
Drivers(d) ==
    CASE d = "postgresql" -> {"psycopg2", "pygresql"}
      [] d = "mssql" -> {"pyodbc", "aioodbc"}
      [] d = "mysql" -> {"mysqldb"}
      [] d = "sqlite" -> {"pysqlite"}
      [] d = "cockroachdb" -> {"psycopg2"}
      [] OTHER -> {"cx_oracle"}

FileNames == {"a.db"}

\* Databases a caller's URL may name on the backend.
Databases(d) == IF d = "sqlite" THEN FileNames \cup {":memory:", None} ELSE {"db1", "db2"}

Urls(d) == [dialect : {d}, driver : Drivers(d), database : Databases(d)]

SessionIds == {51, 52}

Versions == {<<8, 4, 20>>, <<9, 1>>, <<9, 2>>, <<14, 5>>}

\* Paths on disk: missing, a directory, and the regular files: empty, a
\* single byte, truncated header, foreign content, database.
FileAbsent == [isfile |-> FALSE, isdir |-> FALSE, size |-> 0, magic |-> FALSE]
Directory == [isfile |-> FALSE, isdir |-> TRUE, size |-> 4096, magic |-> FALSE]
FileEmpty == [isfile |-> TRUE, isdir |-> FALSE, size |-> 0, magic |-> FALSE]
FileOneByte == [isfile |-> TRUE, isdir |-> FALSE, size |-> 1, magic |-> FALSE]
FileTruncated == [isfile |-> TRUE, isdir |-> FALSE, size |-> 16, magic |-> TRUE]
FileForeign == [isfile |-> TRUE, isdir |-> FALSE, size |-> 4096, magic |-> FALSE]
FileSqlite == [isfile |-> TRUE, isdir |-> FALSE, size |-> 8192, magic |-> TRUE]

_set_url_database(u, db) == [u EXCEPT !.database = db]

\* Variant: the header is not compared.
SqliteFileExistsNoHeader(fs, name) == fs[name].isfile /\ fs[name].size >= 100

\* In the file system fs: a regular file of at least 100 bytes whose first
\* 16 bytes are the SQLite header.
_sqlite_file_exists_in(fs, name) ==
    IF ~fs[name].isfile \/ fs[name].size < 100
    THEN FALSE
    ELSE fs[name].magic

_sqlite_file_exists(name) == _sqlite_file_exists_in(files, name)

\* Python's tuple comparison a >= b.
RECURSIVE TupleGE(_, _)
TupleGE(a, b) ==
    IF b = <<>> THEN TRUE
    ELSE IF a = <<>> THEN FALSE
    ELSE IF Head(a) # Head(b) THEN Head(a) > Head(b)
    ELSE TupleGE(Tail(a), Tail(b))

\* Variant: strictly newer than 9.2.
PidColumnStrict(version) ==
    IF TupleGE(version, <<9, 2>>) /\ version # <<9, 2>> THEN "pid" ELSE "procpid"

pid_column(version) == IF TupleGE(version, <<9, 2>>) THEN "pid" ELSE "procpid"

\* A connection to database d can be opened: SQLite opens its database in
\* the process itself, a server accepts a connection to a database it has.
CanConnect(d) ==
    IF backend = "sqlite" THEN TRUE
    ELSE IF d = None THEN default_db_ok
    ELSE d \in (dbs \cup sysdbs)

\* A statement as the code builds it: its kind, the database name it
\* interpolates (quoted: through quote(conn, ...)), the session id or pid
\* column it interpolates.
Stmt(kind, db, quoted, session, pidcol) ==
    [stmt |-> kind, database |-> db, quoted |-> quoted, session |-> session,
     pid_column |-> pidcol]

\* A statement as executed: the database and number of the connection it
\* ran on, and whether it raised.
Executed(s, on, conn, raised) ==
    [stmt |-> s.stmt, database |-> s.database, quoted |-> s.quoted,
     session |-> s.session, pid_column |-> s.pid_column,
     on |-> on, conn |-> conn, raised |-> raised]

\* The server cannot execute the statement in its present state.
ServerRejects(s) ==
    \/ backend = "sqlite" /\ s.stmt \in {"CREATE DATABASE", "DROP DATABASE"}
    \/ s.stmt = "CREATE DATABASE" /\ s.database \in dbs
    \/ s.stmt \in {"DROP DATABASE", "ALTER DATABASE SET SINGLE_USER"}
        /\ s.database \notin dbs

\* Outcomes of conn.execute: TRUE it returned, FALSE it raised.
Outcomes(s) == IF ServerRejects(s) THEN {FALSE} ELSE BOOLEAN

\* The server's databases after the statement returned.
DbsAfter(s) ==
    CASE s.stmt = "CREATE DATABASE" -> dbs \cup {s.database}
      [] s.stmt = "DROP DATABASE" -> dbs \ {s.database}
      [] OTHER -> dbs

\* What conn.scalar may do with a statement: answer (None), or raise one of
\* the two classes database_exists catches, or another DBAPI error.
StatementFaults == {None, "ProgrammingError", "OperationalError", "DatabaseError"}

\* except (ProgrammingError, OperationalError)
CaughtErrors == {"ProgrammingError", "OperationalError"}

\* _get_scalar_result: exc when the connection fails (executed FALSE) or the
\* statement raises fault (executed TRUE), else the first column of the
\* first row (<<>> for no row).
_get_scalar_result(u, s, fault) ==
    IF ~CanConnect(u.database)
    THEN [exc |-> "OperationalError", scalar |-> <<>>, executed |-> FALSE]
    ELSE IF fault # None
    THEN [exc |-> fault, scalar |-> <<>>, executed |-> TRUE]
    ELSE CASE s.stmt = "SELECT 1 FROM pg_database"
                -> [exc |-> None, executed |-> TRUE,
                    scalar |-> IF s.database \in dbs THEN <<1>> ELSE <<>>]
           [] s.stmt = "SELECT SCHEMA_NAME"
                -> [exc |-> None, executed |-> TRUE,
                    scalar |-> IF s.database \in dbs THEN <<s.database>> ELSE <<>>]
           [] OTHER -> [exc |-> None, executed |-> TRUE, scalar |-> <<1>>]

\* bool() of a scalar result: None is falsy, 1 and a schema name are truthy.
Bool(r) == r.scalar # <<>>

PgCandidates(db) == <<db, "postgres", "template1", "template0", None>>

\* The connection database create_database and drop_database switch to.
CreateConnDatabase(u) ==
    IF u.dialect = "postgresql" THEN _set_url_database(u, "postgres")
    ELSE IF u.dialect = "mssql" THEN _set_url_database(u, "master")
    ELSE IF u.dialect = "cockroachdb" THEN _set_url_database(u, "defaultdb")
    ELSE IF ~(u.dialect = "sqlite") THEN _set_url_database(u, None)
    ELSE u

\* Variant: the mssql case is missing.
DropConnDatabaseNoMssql(u) ==
    IF u.dialect = "postgresql" THEN _set_url_database(u, "postgres")
    ELSE IF u.dialect = "cockroachdb" THEN _set_url_database(u, "defaultdb")
    ELSE IF ~(u.dialect = "sqlite") THEN _set_url_database(u, None)
    ELSE u

DropConnDatabase(u) ==
    IF u.dialect = "postgresql" THEN _set_url_database(u, "postgres")
    ELSE IF u.dialect = "mssql" THEN _set_url_database(u, "master")
    ELSE IF u.dialect = "cockroachdb" THEN _set_url_database(u, "defaultdb")
    ELSE IF ~(u.dialect = "sqlite") THEN _set_url_database(u, None)
    ELSE u

PgAutocommitDrivers == {"asyncpg", "pg8000", "psycopg", "psycopg2", "psycopg2cffi"}
MssqlAutocommitDrivers == {"pymssql", "pyodbc"}

CreateEngineOpts(u) ==
    IF \/ u.dialect = "mssql" /\ u.driver \in MssqlAutocommitDrivers
       \/ u.dialect = "postgresql" /\ u.driver \in PgAutocommitDrivers
    THEN "isolation_level=AUTOCOMMIT"
    ELSE "default"

DropEngineOpts(u) ==
    IF u.dialect = "mssql" /\ u.driver \in MssqlAutocommitDrivers
    THEN "connect_args.autocommit=True"
    ELSE IF u.dialect = "postgresql" /\ u.driver \in PgAutocommitDrivers
    THEN "isolation_level=AUTOCOMMIT"
    ELSE "default"

\* Sequences of session ids the active-transactions query may return.
RowSeqs == UNION {[1..n -> SessionIds] : n \in 0..MaxRows}

\* Names that are no database of their own: SQLite's in-memory database.
PseudoDatabases == {":memory:", None}

InitialFiles ==
    {FileAbsent, Directory, FileEmpty, FileOneByte, FileTruncated, FileForeign,
     FileSqlite}

InitLifecycle(d, fs) ==
    [n \in Databases(d) |->
        IF d = "sqlite" /\ (n \in PseudoDatabases \/ fs[n] = FileSqlite)
        THEN "preexisting"
        ELSE "absent"]

DbInit ==
    /\ backend \in Dialects
    /\ dbs = {}
    /\ sysdbs \in (CASE backend = "postgresql"
                          -> {{"postgres", "template1", "template0"},
                              {"template1", "template0"}, {}}
                     [] backend = "mssql" -> {{"master"}}
                     [] backend = "cockroachdb" -> {{"defaultdb"}}
                     [] OTHER -> {{}})
    /\ default_db_ok \in (IF backend = "postgresql" THEN BOOLEAN ELSE {TRUE})
    /\ server_version_info \in (IF backend = "postgresql" THEN Versions ELSE {<<0>>})
    /\ files \in (IF backend = "sqlite"
                  THEN [FileNames -> InitialFiles]
                  ELSE [FileNames -> {FileAbsent}])
    /\ fn = ""
    /\ url = [dialect |-> backend, driver |-> "", database |-> None]
    /\ database = None
    /\ engine_opts = "default"
    /\ pc = "idle"
    /\ k = 1
    /\ nconn = 0
    /\ log = <<>>
    /\ printed = <<>>
    /\ rows = <<>>
    /\ ri = 0
    /\ outcome = "returned"
    /\ retval = FALSE
    /\ lifecycle = InitLifecycle(backend, files)
    /\ swallowed = [n \in Databases(backend) |-> FALSE]

\* The database part at rest, for the behaviours of the pure functions.
DbIdle ==
    /\ backend = "sqlite"
    /\ dbs = {}
    /\ sysdbs = {}
    /\ default_db_ok = TRUE
    /\ server_version_info = <<0>>
    /\ files = [n \in FileNames |-> FileAbsent]
    /\ fn = ""
    /\ url = [dialect |-> backend, driver |-> "", database |-> None]
    /\ database = None
    /\ engine_opts = "default"
    /\ pc = "idle"
    /\ k = 1
    /\ nconn = 0
    /\ log = <<>>
    /\ printed = <<>>
    /\ rows = <<>>
    /\ ri = 0
    /\ outcome = "returned"
    /\ retval = FALSE
    /\ lifecycle = InitLifecycle(backend, files)
    /\ swallowed = [n \in Databases(backend) |-> FALSE]

IxIdle ==
    /\ arg = [type |-> "Column", name |-> "a",
              table |-> [is_table |-> TRUE, primary_key |-> <<>>,
                         constraints |-> {}, indexes |-> {}]]
    /\ ix_pc = "idle"
    /\ ix_result = [exc |-> None, ret |-> <<>>, examined |-> FALSE]

JsIdle ==
    /\ jvalue = [t |-> "none"]
    /\ jflag = TRUE
    /\ j_pc = "idle"
    /\ jresult = [t |-> "none"]

Init == DbInit /\ IxIdle /\ JsIdle

\* The server installation, which no function changes.
Installation == <<backend, sysdbs, default_db_ok, server_version_info>>

\* Entry of a function: its locals after make_url, _set_url_database and
\* sa.create_engine, before the first statement.
Begin(f, u, conn_url, opts, first) ==
    /\ pc \in {"idle", "done"}
    /\ fn' = f
    /\ database' = u.database
    /\ url' = conn_url
    /\ engine_opts' = opts
    /\ pc' = first
    /\ k' = 1
    /\ nconn' = 0
    /\ log' = <<>>
    /\ printed' = <<>>
    /\ rows' = <<>>
    /\ ri' = 0
    /\ outcome' = "running"
    /\ retval' = FALSE
    /\ UNCHANGED <<Installation, dbs, files, lifecycle, swallowed, ixvars, jsvars>>

\* End of a function: it returned (value val) or raised; caught tells whether
\* drop_database printed an exception instead of raising it. The history
\* keeps, per database, the last create_database or drop_database: "created"
\* or "dropped" when it returned, "indeterminate" when it raised, and "kept"
\* when a drop_database that followed a completed create_database returned
\* after printing an exception.
Finish(out, val, caught) ==
    /\ pc' = "done"
    /\ outcome' = out
    /\ retval' = val
    /\ lifecycle' =
         IF fn \in {"create_database", "drop_database"}
            /\ ~(backend = "sqlite" /\ database \in PseudoDatabases)
         THEN [lifecycle EXCEPT ![database] =
                  IF out = "raised" THEN "indeterminate"
                  ELSE IF fn = "create_database" THEN "created"
                  ELSE IF ~caught THEN "dropped"
                  ELSE IF @ \in {"created", "kept"} THEN "kept"
                  ELSE IF @ = "indeterminate" THEN "indeterminate"
                  ELSE "dropped"]
         ELSE lifecycle
    /\ swallowed' =
         IF fn \in {"create_database", "drop_database"}
         THEN [swallowed EXCEPT ![database] = caught]
         ELSE swallowed

(* ------------------------- database_exists ----------------------------- *)

CallDatabaseExists(u) ==
    Begin("database_exists", u, u, "default",
          IF u.dialect = "postgresql" THEN "exists_postgresql"
          ELSE IF u.dialect = "mysql" THEN "exists_mysql"
          ELSE IF u.dialect = "sqlite" THEN "exists_sqlite"
          ELSE "exists_other")

\* The statements of database_exists so far, with this attempt's.
Attempted(text, on, r) ==
    IF r.executed
    THEN Append(log, Executed(text, on, nconn + 1, r.exc # None))
    ELSE log

\* One iteration of the loop over (database, postgres, template1, template0,
\* None): the first connection that answers decides; a ProgrammingError or
\* OperationalError moves on to the next candidate, any other exception
\* leaves the function.
ExistsPostgresql ==
    /\ pc = "exists_postgresql"
    /\ \E fault \in StatementFaults :
        LET text == Stmt("SELECT 1 FROM pg_database", database, FALSE, 0, None)
            u == _set_url_database(url, PgCandidates(database)[k])
            r == _get_scalar_result(u, text, fault)
        IN /\ url' = u
           /\ nconn' = nconn + 1
           /\ log' = Attempted(text, u.database, r)
           /\ IF r.exc = None
              THEN /\ Finish("returned", Bool(r), FALSE)
                   /\ k' = k
              ELSE IF r.exc \notin CaughtErrors
              THEN /\ Finish("raised", FALSE, FALSE)
                   /\ k' = k
              ELSE IF k < Len(PgCandidates(database))
              THEN /\ k' = k + 1
                   /\ UNCHANGED <<pc, outcome, retval, lifecycle, swallowed>>
              ELSE /\ Finish("returned", FALSE, FALSE)
                   /\ k' = k
    /\ UNCHANGED <<Installation, dbs, files, fn, database, engine_opts, printed,
                   rows, ri, ixvars, jsvars>>

\* No except of its own: whatever the connection or the statement raises
\* leaves the function.
ExistsMysql ==
    /\ pc = "exists_mysql"
    /\ \E fault \in StatementFaults :
        LET text == Stmt("SELECT SCHEMA_NAME", database, FALSE, 0, None)
            u == _set_url_database(url, None)
            r == _get_scalar_result(u, text, fault)
        IN /\ url' = u
           /\ nconn' = nconn + 1
           /\ log' = Attempted(text, u.database, r)
           /\ IF r.exc = None
              THEN Finish("returned", Bool(r), FALSE)
              ELSE Finish("raised", FALSE, FALSE)
    /\ UNCHANGED <<Installation, dbs, files, fn, database, engine_opts, k, printed,
                   rows, ri, ixvars, jsvars>>

\* open(database, 'rb') is reached for a regular file of at least 100 bytes;
\* it may fail (permissions, descriptor limit), and nothing catches that.
OpenOutcomes(f) == IF f.isfile /\ f.size >= 100 THEN BOOLEAN ELSE {TRUE}

ExistsSqlite ==
    /\ pc = "exists_sqlite"
    /\ url' = _set_url_database(url, None)
    /\ IF Truthy(database) /\ database # ":memory:"
       THEN \E ok \in OpenOutcomes(files[database]) :
               IF ok
               THEN Finish("returned", _sqlite_file_exists(database), FALSE)
               ELSE Finish("raised", FALSE, FALSE)
       ELSE Finish("returned", TRUE, FALSE)
    /\ UNCHANGED <<Installation, dbs, files, fn, database, engine_opts, k, nconn,
                   log, printed, rows, ri, ixvars, jsvars>>

\* A ProgrammingError or OperationalError of the connection or of SELECT 1
\* is the answer False; any other exception leaves the function.
ExistsOther ==
    /\ pc = "exists_other"
    /\ \E fault \in StatementFaults :
        LET text == Stmt("SELECT 1", None, FALSE, 0, None)
            r == _get_scalar_result(url, text, fault)
        IN /\ nconn' = nconn + 1
           /\ log' = Attempted(text, url.database, r)
           /\ IF r.exc = None
              THEN Finish("returned", Bool(r), FALSE)
              ELSE IF r.exc \in CaughtErrors
              THEN Finish("returned", FALSE, FALSE)
              ELSE Finish("raised", FALSE, FALSE)
    /\ UNCHANGED <<Installation, dbs, files, fn, url, database, engine_opts, k,
                   printed, rows, ri, ixvars, jsvars>>

(* ------------------------- create_database ----------------------------- *)

CallCreateDatabase(u) ==
    Begin("create_database", u, CreateConnDatabase(u), CreateEngineOpts(u),
          IF u.dialect = "postgresql" THEN "create_postgresql"
          ELSE IF u.dialect = "mysql" THEN "create_mysql"
          ELSE IF u.dialect = "sqlite" /\ u.database # ":memory:" THEN "create_sqlite"
          ELSE "create_other")

\* `with engine.begin() as conn: conn.execute(text)` for one statement s that
\* creates or drops a database: an exception leaves the function.
ExecuteOnly(s) ==
    /\ nconn' = nconn + 1
    /\ IF ~CanConnect(url.database)
       THEN /\ Finish("raised", FALSE, FALSE)
            /\ UNCHANGED <<log, dbs>>
       ELSE \E ok \in Outcomes(s) :
               /\ log' = Append(log, Executed(s, url.database, nconn + 1, ~ok))
               /\ dbs' = IF ok THEN DbsAfter(s) ELSE dbs
               /\ Finish(IF ok THEN "returned" ELSE "raised", FALSE, FALSE)
    /\ UNCHANGED <<Installation, files, fn, url, database, engine_opts, k, printed,
                   rows, ri, ixvars, jsvars>>

CreatePostgresql ==
    /\ pc = "create_postgresql"
    /\ ExecuteOnly(Stmt("CREATE DATABASE", database, TRUE, 0, None))

CreateMysql ==
    /\ pc = "create_mysql"
    /\ ExecuteOnly(Stmt("CREATE DATABASE", database, TRUE, 0, None))

\* The files SQLite can use: one of at most one byte (which it takes for an
\* empty one) or a database file, and no other.
SqliteUsable(f) == f.isfile /\ (f.size <= 1 \/ (f.size >= 100 /\ f.magic))

\* The path after SQLite connected to it: a missing file has been created,
\* empty.
SqliteOpened(f) == IF f.isfile THEN f ELSE FileEmpty

\* engine.begin() opens the path: it fails on a directory, and may fail on
\* any other path (parent directory missing or not writable, descriptor
\* limit).
ConnectOutcomes(f) == IF f.isdir THEN {FALSE} ELSE BOOLEAN

\* A failed connection leaves no statement and no file; otherwise the file
\* exists from the connection on, whatever the statements do.
CreateSqlite ==
    /\ pc = "create_sqlite"
    /\ IF Truthy(database)
       THEN \E connected \in ConnectOutcomes(files[database]),
               ok1, ok2 \in BOOLEAN :
            IF ~connected
            THEN /\ nconn' = nconn + 1
                 /\ Finish("raised", FALSE, FALSE)
                 /\ UNCHANGED <<log, files>>
            ELSE LET opened == SqliteOpened(files[database])
                        made == ok1 /\ SqliteUsable(opened)
                        t1 == Stmt("CREATE TABLE DB", None, FALSE, 0, None)
                        t2 == Stmt("DROP TABLE DB", None, FALSE, 0, None)
                    IN /\ nconn' = nconn + 1
                       /\ log' = IF made
                                 THEN <<Executed(t1, url.database, nconn + 1, FALSE),
                                        Executed(t2, url.database, nconn + 1, ~ok2)>>
                                 ELSE <<Executed(t1, url.database, nconn + 1, TRUE)>>
                       /\ files' = [files EXCEPT ![database] =
                                       IF made THEN FileSqlite ELSE opened]
                       /\ Finish(IF made /\ ok2 THEN "returned" ELSE "raised",
                                 FALSE, FALSE)
       ELSE /\ Finish("returned", FALSE, FALSE)
            /\ UNCHANGED <<nconn, log, files>>
    /\ UNCHANGED <<Installation, dbs, fn, url, database, engine_opts, k, printed,
                   rows, ri, ixvars, jsvars>>

CreateOther ==
    /\ pc = "create_other"
    /\ ExecuteOnly(Stmt("CREATE DATABASE", database, TRUE, 0, None))

(* -------------------------- drop_database ------------------------------ *)

CallDropDatabase(u) ==
    Begin("drop_database", u, DropConnDatabase(u), DropEngineOpts(u),
          IF u.dialect = "sqlite" /\ u.database # ":memory:" THEN "drop_sqlite"
          ELSE IF u.dialect = "postgresql" THEN "drop_pg_terminate"
          ELSE IF u.dialect = "mssql" THEN "mssql_active"
          ELSE "drop_other")

\* os.remove(database): FileNotFoundError for a missing file,
\* IsADirectoryError for a directory.
DropSqlite ==
    /\ pc = "drop_sqlite"
    /\ IF Truthy(database)
       THEN \E ok \in (IF files[database].isfile THEN BOOLEAN ELSE {FALSE}) :
               /\ files' = IF ok THEN [files EXCEPT ![database] = FileAbsent]
                           ELSE files
               /\ Finish(IF ok THEN "returned" ELSE "raised", FALSE, FALSE)
       ELSE /\ Finish("returned", FALSE, FALSE)
            /\ UNCHANGED files
    /\ UNCHANGED <<Installation, dbs, fn, url, database, engine_opts, k, nconn, log,
                   printed, rows, ri, ixvars, jsvars>>

\* The statement that disconnects all users from the database.
TerminateStmt ==
    Stmt("SELECT pg_terminate_backend", database, FALSE, 0,
         pid_column(server_version_info))

DropPgTerminate ==
    /\ pc = "drop_pg_terminate"
    /\ nconn' = nconn + 1
    /\ IF ~CanConnect(url.database)
       THEN /\ Finish("raised", FALSE, FALSE)
            /\ UNCHANGED log
       ELSE \E ok \in Outcomes(TerminateStmt) :
               /\ log' = Append(log, Executed(TerminateStmt, url.database,
                                              nconn + 1, ~ok))
               /\ IF ok
                  THEN /\ pc' = "drop_pg_drop"
                       /\ UNCHANGED <<outcome, retval, lifecycle, swallowed>>
                  ELSE Finish("raised", FALSE, FALSE)
    /\ UNCHANGED <<Installation, dbs, files, fn, url, database, engine_opts, k,
                   printed, rows, ri, ixvars, jsvars>>

DropPgDrop ==
    /\ pc = "drop_pg_drop"
    /\ LET s == Stmt("DROP DATABASE", database, TRUE, 0, None)
       IN \E ok \in Outcomes(s) :
             /\ log' = Append(log, Executed(s, url.database, nconn, ~ok))
             /\ dbs' = IF ok THEN DbsAfter(s) ELSE dbs
             /\ Finish(IF ok THEN "returned" ELSE "raised", FALSE, FALSE)
    /\ UNCHANGED <<Installation, files, fn, url, database, engine_opts, k, nconn,
                   printed, rows, ri, ixvars, jsvars>>

DropOther ==
    /\ pc = "drop_other"
    /\ ExecuteOnly(Stmt("DROP DATABASE", database, TRUE, 0, None))

(* ---------------------- drop_database, mssql --------------------------- *)

\* What the mssql branch leaves alone at every statement.
MssqlFrame ==
    UNCHANGED <<Installation, files, fn, url, database, engine_opts, k, ixvars,
                jsvars>>

Running == UNCHANGED <<outcome, retval, lifecycle, swallowed>>

\* 1. The active-transactions query, outside any try block: an exception
\* leaves drop_database.
MssqlActiveTransactions ==
    /\ pc = "mssql_active"
    /\ nconn' = nconn + 1
    /\ IF ~CanConnect(url.database)
       THEN /\ Finish("raised", FALSE, FALSE)
            /\ UNCHANGED <<log, printed, rows, ri>>
       ELSE \E ok \in BOOLEAN, rs \in RowSeqs :
               LET s == Stmt("SELECT active transactions", database, FALSE, 0, None)
                   fetched == IF database \in dbs THEN rs ELSE <<>>
               IN /\ log' = Append(log, Executed(s, url.database, nconn + 1, ~ok))
                  /\ IF ~ok
                     THEN /\ Finish("raised", FALSE, FALSE)
                          /\ printed' = <<"DIAGNOSTIC INFORMATION">>
                          /\ UNCHANGED <<rows, ri>>
                     ELSE IF fetched = <<>>
                     THEN /\ rows' = fetched
                          /\ printed' = <<"DIAGNOSTIC INFORMATION",
                                          "No active transactions found.">>
                          /\ pc' = "mssql_alter"
                          /\ UNCHANGED ri
                          /\ Running
                     ELSE /\ rows' = fetched
                          /\ ri' = 1
                          /\ printed' = <<"DIAGNOSTIC INFORMATION">>
                          /\ pc' = "mssql_locks"
                          /\ Running
    /\ UNCHANGED dbs
    /\ MssqlFrame

\* A per-session diagnostic query inside its own try/except: the exception is
\* printed and the loop goes on; the recommendations are printed after the
\* last row.
Diagnostic(kind, error, next) ==
    \E ok \in BOOLEAN :
       LET s == Stmt(kind, None, FALSE, rows[ri], None)
       IN /\ log' = Append(log, Executed(s, url.database, nconn, ~ok))
          /\ printed' = (IF ok THEN printed ELSE Append(printed, error))
                           \o (IF next = "mssql_alter" THEN <<"RECOMMENDATIONS">>
                               ELSE <<>>)
          /\ pc' = next

\* 2. Locks held by the session of the current row.
MssqlLocks ==
    /\ pc = "mssql_locks"
    /\ Diagnostic("SELECT locks", "Error retrieving locks", "mssql_recent")
    /\ UNCHANGED <<dbs, nconn, rows, ri>>
    /\ Running
    /\ MssqlFrame

\* 3. Recent SQL of the session of the current row.
MssqlRecentSql ==
    /\ pc = "mssql_recent"
    /\ Diagnostic("SELECT recent SQL", "Error retrieving recent SQL", "mssql_blocking")
    /\ UNCHANGED <<dbs, nconn, rows, ri>>
    /\ Running
    /\ MssqlFrame

\* Variant: the loop ends after the first row.
MssqlBlockingFirstRowOnly ==
    /\ pc = "mssql_blocking"
    /\ Diagnostic("SELECT blocking", "Error retrieving blocking info", "mssql_alter")
    /\ UNCHANGED <<dbs, nconn, rows, ri>>
    /\ Running
    /\ MssqlFrame

\* 4. Sessions blocked by the session of the current row; then the next row,
\* or, after the last one, the attempt to drop.
MssqlBlocking ==
    /\ pc = "mssql_blocking"
    /\ Diagnostic("SELECT blocking", "Error retrieving blocking info",
                  IF ri < Len(rows) THEN "mssql_locks" ELSE "mssql_alter")
    /\ ri' = IF ri < Len(rows) THEN ri + 1 ELSE ri
    /\ UNCHANGED <<dbs, nconn, rows>>
    /\ Running
    /\ MssqlFrame

\* Variant: ALTER runs outside the try block and its exception propagates.
MssqlAlterUncaught ==
    /\ pc = "mssql_alter"
    /\ LET s == Stmt("ALTER DATABASE SET SINGLE_USER", database, TRUE, 0, None)
       IN \E ok \in Outcomes(s) :
             /\ log' = Append(log, Executed(s, url.database, nconn, ~ok))
             /\ IF ok
                THEN /\ printed' = printed \o <<"ATTEMPTING TO DROP DATABASE",
                                                "Database set to SINGLE_USER mode">>
                     /\ pc' = "mssql_drop"
                     /\ Running
                ELSE /\ printed' = Append(printed, "ATTEMPTING TO DROP DATABASE")
                     /\ Finish("raised", FALSE, FALSE)
    /\ UNCHANGED <<dbs, nconn, rows, ri>>
    /\ MssqlFrame

\* ALTER DATABASE ... SET SINGLE_USER WITH ROLLBACK IMMEDIATE, first statement
\* of the try block: an exception is printed and drop_database returns.
MssqlAlter ==
    /\ pc = "mssql_alter"
    /\ LET s == Stmt("ALTER DATABASE SET SINGLE_USER", database, TRUE, 0, None)
       IN \E ok \in Outcomes(s) :
             /\ log' = Append(log, Executed(s, url.database, nconn, ~ok))
             /\ IF ok
                THEN /\ printed' = printed \o <<"ATTEMPTING TO DROP DATABASE",
                                                "Database set to SINGLE_USER mode">>
                     /\ pc' = "mssql_drop"
                     /\ Running
                ELSE /\ printed' = printed \o <<"ATTEMPTING TO DROP DATABASE",
                                                "Error dropping database">>
                     /\ Finish("returned", FALSE, TRUE)
    /\ UNCHANGED <<dbs, nconn, rows, ri>>
    /\ MssqlFrame

\* DROP DATABASE, second statement of the same try block.
MssqlDrop ==
    /\ pc = "mssql_drop"
    /\ LET s == Stmt("DROP DATABASE", database, TRUE, 0, None)
       IN \E ok \in Outcomes(s) :
             /\ log' = Append(log, Executed(s, url.database, nconn, ~ok))
             /\ dbs' = IF ok THEN DbsAfter(s) ELSE dbs
             /\ printed' = Append(printed, IF ok THEN "successfully dropped"
                                           ELSE "Error dropping database")
             /\ Finish("returned", FALSE, ~ok)
    /\ UNCHANGED <<nconn, rows, ri>>
    /\ MssqlFrame

(* ----------------------------- behaviour ------------------------------- *)

Next ==
    \/ \E u \in Urls(backend) : CallDatabaseExists(u)
    \/ \E u \in Urls(backend) : CallCreateDatabase(u)
    \/ \E u \in Urls(backend) : CallDropDatabase(u)
    \/ ExistsPostgresql
    \/ ExistsMysql
    \/ ExistsSqlite
    \/ ExistsOther
    \/ CreatePostgresql
    \/ CreateMysql
    \/ CreateSqlite
    \/ CreateOther
    \/ DropSqlite
    \/ DropPgTerminate
    \/ DropPgDrop
    \/ DropOther
    \/ MssqlActiveTransactions
    \/ MssqlLocks
    \/ MssqlRecentSql
    \/ MssqlBlocking
    \/ MssqlAlter
    \/ MssqlDrop

Spec == Init /\ [][Next]_vars

(* ----------------------------------------------------------------------- *)
(* Properties of database_exists / create_database / drop_database         *)
(* ----------------------------------------------------------------------- *)

ExistsReturned ==
    pc = "done" /\ fn = "database_exists" /\ outcome = "returned"

MssqlDropCall == fn = "drop_database" /\ backend = "mssql"

Positions == 1..Len(log)

DatabaseExistsRaised ==
    pc = "done" /\ fn = "database_exists" /\ outcome = "raised"

\* No statement of the call raised.
NoStatementRaised == \A i \in Positions : ~log[i].raised

Answered == log # <<>> /\ ~log[Len(log)].raised

RECURSIVE PerSession(_)
PerSession(rs) ==
    IF rs = <<>> THEN <<>>
    ELSE << <<"SELECT locks", Head(rs)>>, <<"SELECT recent SQL", Head(rs)>>,
            <<"SELECT blocking", Head(rs)>> >> \o PerSession(Tail(rs))

FullOrder(rs) ==
    << <<"SELECT active transactions", 0>> >> \o PerSession(rs)
        \o << <<"ALTER DATABASE SET SINGLE_USER", 0>>, <<"DROP DATABASE", 0>> >>

\* C2: the statements of an mssql drop are a prefix of: active transactions;
\* locks, recent SQL, blocking for each row in row order; ALTER; DROP. DROP
\* directly follows an ALTER that did not raise.
C2_MssqlOrder ==
    MssqlDropCall =>
        /\ Len(log) <= Len(FullOrder(rows))
        /\ \A i \in Positions : <<log[i].stmt, log[i].session>> = FullOrder(rows)[i]
        /\ \A i \in Positions :
              log[i].stmt = "DROP DATABASE"
                => i > 1 /\ log[i - 1].stmt = "ALTER DATABASE SET SINGLE_USER"
                         /\ ~log[i - 1].raised
        /\ Cardinality({i \in Positions : log[i].stmt = "DROP DATABASE"}) <= 1
        /\ Cardinality({i \in Positions :
                          log[i].stmt = "ALTER DATABASE SET SINGLE_USER"}) <= 1

C2_Witness ==
    /\ MssqlDropCall
    /\ pc = "done"
    /\ Len(rows) = 2
    /\ rows[1] # rows[2]
    /\ Len(log) = Len(FullOrder(rows))

\* C3: when ALTER or DROP raises in an mssql drop, the exception is printed,
\* nothing is executed after the raising statement, and drop_database
\* returns normally.
C3_MssqlCaught ==
    (MssqlDropCall /\ pc = "done") =>
        \A i \in Positions :
            (log[i].stmt \in {"ALTER DATABASE SET SINGLE_USER", "DROP DATABASE"}
             /\ log[i].raised)
              => /\ outcome = "returned"
                 /\ i = Len(log)
                 /\ printed # <<>>
                 /\ printed[Len(printed)] = "Error dropping database"
                 /\ \A j \in Positions : log[j].stmt = log[i].stmt => j = i

C3_Witness ==
    /\ MssqlDropCall
    /\ pc = "done"
    /\ outcome = "returned"
    /\ log # <<>>
    /\ log[Len(log)].stmt = "DROP DATABASE"
    /\ log[Len(log)].raised
    /\ database \in dbs

\* The connection database C4 names for each dialect.
ConnDatabaseOf(d, db) ==
    CASE d = "postgresql" -> "postgres"
      [] d = "mssql" -> "master"
      [] d = "cockroachdb" -> "defaultdb"
      [] d = "sqlite" -> db
      [] OTHER -> None

\* C4: create_database and drop_database connect to the same database per
\* dialect, and CREATE DATABASE / DROP DATABASE name the caller's database.
C4_ConnectionDatabase ==
    (fn \in {"create_database", "drop_database"}) =>
        /\ url.database = ConnDatabaseOf(backend, database)
        /\ \A i \in Positions :
              log[i].stmt \in {"CREATE DATABASE", "DROP DATABASE"}
                => /\ log[i].database = database
                   /\ log[i].quoted
                   /\ log[i].on = ConnDatabaseOf(backend, database)

C4_Witness ==
    /\ fn = "drop_database"
    /\ backend = "mssql"
    /\ pc = "done"
    /\ log # <<>>
    /\ log[Len(log)].stmt = "DROP DATABASE"
    /\ log[Len(log)].database = "db1"
    /\ log[Len(log)].on = "master"

\* C9: in a postgresql drop, DROP DATABASE directly follows, on the same
\* connection, a terminate statement that did not raise; the terminate
\* statement names the caller's database and uses pid from 9.2 on, procpid
\* before.
C9_PgTerminateBeforeDrop ==
    (fn = "drop_database" /\ backend = "postgresql") =>
        /\ \A i \in Positions :
              log[i].stmt = "DROP DATABASE"
                => /\ i > 1
                   /\ log[i - 1].stmt = "SELECT pg_terminate_backend"
                   /\ ~log[i - 1].raised
                   /\ log[i - 1].conn = log[i].conn
                   /\ log[i - 1].on = log[i].on
        /\ \A i \in Positions :
              log[i].stmt = "SELECT pg_terminate_backend"
                => /\ log[i].database = database
                   /\ log[i].pid_column =
                        (IF \/ server_version_info[1] > 9
                            \/ server_version_info[1] = 9 /\ server_version_info[2] >= 2
                         THEN "pid" ELSE "procpid")

C9_Witness ==
    /\ fn = "drop_database"
    /\ backend = "postgresql"
    /\ pc = "done"
    /\ outcome = "returned"
    /\ Len(log) = 2
    /\ log[2].stmt = "DROP DATABASE"
    /\ log[1].pid_column = "pid"
    /\ server_version_info = <<9, 2>>

\* C10 as stated: once the diagnostics of an mssql drop have started, ALTER
\* DATABASE ... SET SINGLE_USER is issued whatever the diagnostics did.
C10_AlterAlwaysIssued ==
    (MssqlDropCall /\ pc = "done" /\ log # <<>>)
        => \E i \in Positions : log[i].stmt = "ALTER DATABASE SET SINGLE_USER"

(* ----------------------------------------------------------------------- *)
(* Part 2: has_index / has_unique_index                                    *)
(* ----------------------------------------------------------------------- *)

\* Bound: indexes and unique constraints declared on a table.
MaxKeys == 1

ColumnNames == {"a", "b", "c"}

\* Column lists of a key: one or more columns, none twice.
ColumnLists ==
    UNION {{s \in [1..n -> ColumnNames] : \A i, j \in 1..n : s[i] = s[j] => i = j}
           : n \in 1..Cardinality(ColumnNames)}

KeyKinds == {"Index", "UniqueIndex", "UniqueConstraint"}

KeyDecls == [kind : KeyKinds, columns : ColumnLists]

RECURSIVE KeySets(_)
KeySets(n) ==
    IF n = 0 THEN {{}}
    ELSE KeySets(n - 1) \cup {ks \cup {x} : ks \in KeySets(n - 1), x \in KeyDecls}

\* A Table as declared: its primary key, the indexes and unique constraints
\* keys, and the foreign key constraints fks. table.constraints always holds
\* the PrimaryKeyConstraint.
TableOf(pk, keys, fks) ==
    [is_table |-> TRUE,
     primary_key |-> pk,
     constraints |->
        {[type |-> "PrimaryKeyConstraint", columns |-> pk]}
        \cup {[type |-> "UniqueConstraint", columns |-> x.columns]
                : x \in {y \in keys : y.kind = "UniqueConstraint"}}
        \cup {[type |-> "ForeignKeyConstraint", columns |-> f] : f \in fks},
     indexes |->
        {[columns |-> x.columns, unique |-> x.kind = "UniqueIndex"]
            : x \in {y \in keys : y.kind \in {"Index", "UniqueIndex"}}}]

\* A selectable that is not a Table (an alias of one).
AliasOf(t) == [t EXCEPT !.is_table = FALSE]

ColumnArg(name, t) == [type |-> "Column", name |-> name, table |-> t]
ConstraintArg(cols, t) == [type |-> "ForeignKeyConstraint", columns |-> cols, table |-> t]

IxInit ==
    /\ \E pk \in ColumnLists \cup {<<>>}, keys \in KeySets(MaxKeys) :
          \/ \E c \in ColumnNames : arg = ColumnArg(c, TableOf(pk, keys, {}))
          \/ \E f \in ColumnLists : arg = ConstraintArg(f, TableOf(pk, keys, {f}))
          \/ /\ keys = {}
             /\ \E c \in ColumnNames : arg = ColumnArg(c, AliasOf(TableOf(pk, keys, {})))
          \/ /\ keys = {}
             /\ \E f \in ColumnLists :
                   arg = ConstraintArg(f, AliasOf(TableOf(pk, keys, {f})))
    /\ ix_pc = "idle"
    /\ ix_result = [exc |-> None, ret |-> <<>>, examined |-> FALSE]

\* utils.starts_with: list(iterable)[0:len(prefix)] == list(prefix).
starts_with(iterable, prefix) ==
    SubSeq(iterable, 1, IF Len(prefix) < Len(iterable) THEN Len(prefix)
                        ELSE Len(iterable)) = prefix

\* The local `columns`: the constraint's columns, or the column alone.
ColumnsOf(column_or_constraint) ==
    IF column_or_constraint.type = "ForeignKeyConstraint"
    THEN column_or_constraint.columns
    ELSE <<column_or_constraint.name>>

Range(seq) == {seq[i] : i \in 1..Len(seq)}

\* Variant: the columns may stand anywhere in the key.
HasIndexAnyPosition(column_or_constraint) ==
    LET table == column_or_constraint.table
        columns == ColumnsOf(column_or_constraint)
    IN IF ~table.is_table
       THEN [exc |-> "TypeError", ret |-> <<>>, examined |-> FALSE]
       ELSE [exc |-> None,
             ret |-> << \/ Range(columns) \subseteq Range(table.primary_key)
                        \/ \E index \in table.indexes :
                              Range(columns) \subseteq Range(index.columns) >>,
             examined |-> TRUE]

\* Variant: the type of the table is not checked.
HasIndexUnchecked(column_or_constraint) ==
    LET table == column_or_constraint.table
        primary_keys == table.primary_key
        columns == ColumnsOf(column_or_constraint)
    IN [exc |-> None,
        ret |-> << \/ (primary_keys # <<>> /\ starts_with(primary_keys, columns))
                   \/ \E index \in table.indexes :
                         starts_with(index.columns, columns) >>,
        examined |-> TRUE]

\* has_index: raises TypeError, or returns ret[1]; examined tells whether
\* the primary key and indexes were read.
has_index(column_or_constraint) ==
    LET table == column_or_constraint.table
    IN IF ~table.is_table
       THEN [exc |-> "TypeError", ret |-> <<>>, examined |-> FALSE]
       ELSE LET primary_keys == table.primary_key
                columns == ColumnsOf(column_or_constraint)
            IN [exc |-> None,
                ret |-> << \/ (primary_keys # <<>>
                               /\ starts_with(primary_keys, columns))
                           \/ \E index \in table.indexes :
                                 starts_with(index.columns, columns) >>,
                examined |-> TRUE]

\* Variant: any index counts, unique or not.
HasUniqueIndexAnyIndex(column_or_constraint) ==
    LET table == column_or_constraint.table
        columns == ColumnsOf(column_or_constraint)
    IN IF ~table.is_table
       THEN [exc |-> "TypeError", ret |-> <<>>, examined |-> FALSE]
       ELSE [exc |-> None,
             ret |-> << \/ columns = table.primary_key
                        \/ \E constraint \in table.constraints :
                              /\ constraint.type = "UniqueConstraint"
                              /\ columns = constraint.columns
                        \/ \E index \in table.indexes : columns = index.columns >>,
             examined |-> TRUE]

has_unique_index(column_or_constraint) ==
    LET table == column_or_constraint.table
    IN IF ~table.is_table
       THEN [exc |-> "TypeError", ret |-> <<>>, examined |-> FALSE]
       ELSE LET primary_keys == table.primary_key
                columns == ColumnsOf(column_or_constraint)
            IN [exc |-> None,
                ret |-> << \/ columns = primary_keys
                           \/ \E constraint \in table.constraints :
                                 /\ constraint.type = "UniqueConstraint"
                                 /\ columns = constraint.columns
                           \/ \E index \in table.indexes :
                                 index.unique /\ columns = index.columns >>,
                examined |-> TRUE]

HasIndexCall ==
    /\ ix_pc = "idle"
    /\ ix_pc' = "has_index"
    /\ ix_result' = has_index(arg)
    /\ UNCHANGED <<arg, dbvars, jsvars>>

HasUniqueIndexCall ==
    /\ ix_pc = "idle"
    /\ ix_pc' = "has_unique_index"
    /\ ix_result' = has_unique_index(arg)
    /\ UNCHANGED <<arg, dbvars, jsvars>>

IndexInit == DbIdle /\ IxInit /\ JsIdle

IndexNext == HasIndexCall \/ HasUniqueIndexCall

SpecIndex == IndexInit /\ [][IndexNext]_vars

(* ----------------------------------------------------------------------- *)
(* Properties of has_index / has_unique_index                              *)
(* ----------------------------------------------------------------------- *)

\* p is a leading prefix of s.
LeadingPrefix(p, s) == Len(p) <= Len(s) /\ \A i \in 1..Len(p) : p[i] = s[i]

GivenColumns == IF arg.type = "Column" THEN <<arg.name>> ELSE arg.columns

\* C5: has_index returns True exactly when the given columns are a leading
\* prefix of the primary key or of some index; a column that is only a
\* second or later column of every key has no index.
C5_HasIndexLeadingPrefix ==
    (ix_pc = "has_index" /\ ix_result.exc = None) =>
        /\ ix_result.ret[1] =
              (\/ LeadingPrefix(GivenColumns, arg.table.primary_key)
               \/ \E x \in arg.table.indexes : LeadingPrefix(GivenColumns, x.columns))
        /\ (/\ arg.type = "Column"
            /\ (arg.table.primary_key = <<>> \/ arg.table.primary_key[1] # arg.name)
            /\ \A x \in arg.table.indexes : x.columns[1] # arg.name)
              => ix_result.ret[1] = FALSE

C5_Witness ==
    /\ ix_pc = "has_index"
    /\ arg.type = "ForeignKeyConstraint"
    /\ Len(arg.columns) = 2
    /\ arg.table.primary_key = <<>>
    /\ \E x \in arg.table.indexes : Len(x.columns) = 3
    /\ ix_result.ret = <<TRUE>>

\* C6: has_unique_index returns True exactly when the given columns are the
\* primary key's columns, a UniqueConstraint's columns or a unique index's
\* columns; one member of a multi-column key, and a column under a
\* non-unique index only, yield False.
C6_HasUniqueIndexSameColumns ==
    (ix_pc = "has_unique_index" /\ ix_result.exc = None) =>
        /\ ix_result.ret[1] =
              (\/ GivenColumns = arg.table.primary_key
               \/ \E c \in arg.table.constraints :
                     c.type = "UniqueConstraint" /\ GivenColumns = c.columns
               \/ \E x \in arg.table.indexes : x.unique /\ GivenColumns = x.columns)
        /\ (/\ Len(GivenColumns) = 1
            /\ Len(arg.table.primary_key) # 1
            /\ \A c \in arg.table.constraints :
                  c.type = "UniqueConstraint" => Len(c.columns) > 1
            /\ \A x \in arg.table.indexes : x.unique => Len(x.columns) > 1)
              => ix_result.ret[1] = FALSE

C6_Witness ==
    /\ ix_pc = "has_unique_index"
    /\ arg.type = "Column"
    /\ arg.table.is_table
    /\ \E x \in arg.table.indexes : ~x.unique /\ x.columns = <<arg.name>>
    /\ ix_result.ret = <<FALSE>>

\* C7: both functions raise TypeError and return nothing when the table
\* attribute is not a Table, before the primary key, constraints or indexes
\* are read; for a Table they raise nothing.
C7_TypeErrorFirst ==
    (ix_pc \in {"has_index", "has_unique_index"}) =>
        IF arg.table.is_table
        THEN ix_result.exc = None /\ Len(ix_result.ret) = 1
        ELSE /\ ix_result.exc = "TypeError"
             /\ ix_result.ret = <<>>
             /\ ~ix_result.examined

C7_Witness ==
    /\ ix_pc = "has_unique_index"
    /\ ~arg.table.is_table
    /\ arg.type = "ForeignKeyConstraint"
    /\ ix_result.exc = "TypeError"

(* ----------------------------------------------------------------------- *)
(* Part 3: json_sql / jsonb_sql                                            *)
(* ----------------------------------------------------------------------- *)

\* Bound: elements of a sequence, items of a mapping.
MaxLen == 2

\* Python values: t is the type; a dict holds its items, <<key, value>>, in
\* iteration order.
PyStr(x) == [t |-> "str", v |-> x]
PyInt(x) == [t |-> "int", v |-> x]
PyList(x) == [t |-> "list", v |-> x]
PyDict(x) == [t |-> "dict", v |-> x]
PyNone == [t |-> "none"]

\* SQLAlchemy constructs: sa.text(a) and sa.func.<name>(*args).
Text(a) == [f |-> "text", args |-> <<a>>]
Func(name, args) == [f |-> name, args |-> args]

JsonScalars == {PyStr("ab"), PyInt(1)}
JsonKeys == {PyStr("k"), PyInt(2)}

SeqsUpTo(S, n) == UNION {[1..m -> S] : m \in 0..n}

ItemsOver(S) ==
    {d \in SeqsUpTo(JsonKeys \X S, MaxLen) :
        \A i, j \in 1..Len(d) : d[i][1] = d[j][1] => i = j}

ContainersOver(S) ==
    {PyList(x) : x \in SeqsUpTo(S, MaxLen)} \cup {PyDict(d) : d \in ItemsOver(S)}

\* Scalars, containers of scalars, containers of those.
JsonLevel1 == JsonScalars \cup ContainersOver(JsonScalars)
JsonLevel2 == JsonLevel1 \cup ContainersOver(JsonLevel1) \cup {PyNone}

JsInit ==
    /\ jvalue \in JsonLevel2
    /\ jflag \in BOOLEAN
    /\ j_pc = "idle"
    /\ jresult = PyNone

\* itertools.chain(*value.items()): key1, value1, key2, value2, ...
Chain(items) == [i \in 1..(2 * Len(items)) |-> items[(i + 1) \div 2][2 - (i % 2)]]

\* Variant: itertools.chain(value.keys(), value.values()).
RECURSIVE JsonSqlKeysThenValues(_, _)
JsonSqlKeysThenValues(value, scalars_to_json) ==
    LET scalar_convert(a) ==
           IF scalars_to_json THEN Func("to_json", <<Text(a)>>) ELSE Text(a)
        n == Len(value.v)
    IN IF value.t = "dict"
       THEN Func("json_build_object",
                 [i \in 1..(2 * n) |->
                    JsonSqlKeysThenValues(
                       IF i <= n THEN value.v[i][1] ELSE value.v[i - n][2], FALSE)])
       ELSE IF value.t = "str"
       THEN scalar_convert("'" \o value.v \o "'")
       ELSE IF value.t = "list"
       THEN Func("json_build_array",
                 [i \in 1..n |-> JsonSqlKeysThenValues(value.v[i], FALSE)])
       ELSE IF value.t = "int"
       THEN scalar_convert(ToString(value.v))
       ELSE value

RECURSIVE json_sql(_, _)
json_sql(value, scalars_to_json) ==
    LET scalar_convert(a) ==
           IF scalars_to_json THEN Func("to_json", <<Text(a)>>) ELSE Text(a)
    IN IF value.t = "dict"
       THEN Func("json_build_object",
                 [i \in 1..(2 * Len(value.v)) |-> json_sql(Chain(value.v)[i], FALSE)])
       ELSE IF value.t = "str"
       THEN scalar_convert("'" \o value.v \o "'")
       ELSE IF value.t = "list"
       THEN Func("json_build_array",
                 [i \in 1..Len(value.v) |-> json_sql(value.v[i], FALSE)])
       ELSE IF value.t = "int"
       THEN scalar_convert(ToString(value.v))
       ELSE value

RECURSIVE jsonb_sql(_, _)
jsonb_sql(value, scalars_to_jsonb) ==
    LET scalar_convert(a) ==
           IF scalars_to_jsonb THEN Func("to_jsonb", <<Text(a)>>) ELSE Text(a)
    IN IF value.t = "dict"
       THEN Func("jsonb_build_object",
                 [i \in 1..(2 * Len(value.v)) |-> jsonb_sql(Chain(value.v)[i], FALSE)])
       ELSE IF value.t = "str"
       THEN scalar_convert("'" \o value.v \o "'")
       ELSE IF value.t = "list"
       THEN Func("jsonb_build_array",
                 [i \in 1..Len(value.v) |-> jsonb_sql(value.v[i], FALSE)])
       ELSE IF value.t = "int"
       THEN scalar_convert(ToString(value.v))
       ELSE value

JsonSqlCall ==
    /\ j_pc = "idle"
    /\ j_pc' = "json_sql"
    /\ jresult' = json_sql(jvalue, jflag)
    /\ UNCHANGED <<jvalue, jflag, dbvars, ixvars>>

JsonbSqlCall ==
    /\ j_pc = "idle"
    /\ j_pc' = "jsonb_sql"
    /\ jresult' = jsonb_sql(jvalue, jflag)
    /\ UNCHANGED <<jvalue, jflag, dbvars, ixvars>>

JsonInit == DbIdle /\ IxIdle /\ JsInit

JsonNext == JsonSqlCall \/ JsonbSqlCall

SpecJson == JsonInit /\ [][JsonNext]_vars

(* ----------------------------------------------------------------------- *)
(* Properties of json_sql / jsonb_sql                                      *)
(* ----------------------------------------------------------------------- *)

\* The construct C8 describes for a nested value v, with the function names
\* prefixed by p ("json" or "jsonb").
RECURSIVE Nested(_, _)
Nested(p, v) ==
    CASE v.t = "dict" ->
            [f |-> p \o "_build_object",
             args |-> [i \in 1..(2 * Len(v.v)) |->
                         IF i % 2 = 1 THEN Nested(p, v.v[(i + 1) \div 2][1])
                         ELSE Nested(p, v.v[i \div 2][2])]]
      [] v.t = "list" ->
            [f |-> p \o "_build_array",
             args |-> [i \in 1..Len(v.v) |-> Nested(p, v.v[i])]]
      [] v.t = "str" -> [f |-> "text", args |-> <<"'" \o v.v \o "'">>]
      [] v.t = "int" -> [f |-> "text", args |-> <<ToString(v.v)>>]
      [] OTHER -> v

JsonPrefix == IF j_pc = "json_sql" THEN "json" ELSE "jsonb"

\* C8: a mapping becomes <p>_build_object(key1, value1, key2, value2, ...), a
\* sequence <p>_build_array(elements in order), nested values likewise at
\* every depth, and a string one scalar.
C8_JsonConstructs ==
    (j_pc \in {"json_sql", "jsonb_sql"}) =>
        /\ jvalue.t \in {"dict", "list"} => jresult = Nested(JsonPrefix, jvalue)
        /\ jvalue.t = "dict"
              => /\ jresult.f = JsonPrefix \o "_build_object"
                 /\ Len(jresult.args) = 2 * Len(jvalue.v)
        /\ jvalue.t = "list"
              => /\ jresult.f = JsonPrefix \o "_build_array"
                 /\ Len(jresult.args) = Len(jvalue.v)
        /\ jvalue.t = "str"
              => jresult = (IF jflag
                            THEN [f |-> "to_" \o JsonPrefix,
                                  args |-> <<Nested(JsonPrefix, jvalue)>>]
                            ELSE Nested(JsonPrefix, jvalue))

C8_Witness ==
    /\ j_pc = "jsonb_sql"
    /\ jvalue.t = "dict"
    /\ Len(jvalue.v) = 2
    /\ jvalue.v[1][1] = PyInt(2)
    /\ jvalue.v[1][2].t = "list"
    /\ Len(jvalue.v[1][2].v) = 2
    /\ jvalue.v[2][2] = PyStr("ab")
    /\ jresult.f = "jsonb_build_object"
    /\ jresult.args[1] = Text("2")
    /\ jresult.args[2].f = "jsonb_build_array"
    /\ jresult.args[4] = Text("'ab'")

====
